---- MODULE Spec2Model ----
(***************************************************************************)
(* Model of the realtime tutor session manager (the useRealtimeTutor hook  *)
(* of components/TutorAvatar.tsx) together with the tutor page that drives *)
(* it (app/tutor/page.tsx), the route that mints the ephemeral token       *)
(* (app/api/realtime/token/route.ts) and the math parser (lib/mathParser). *)
(*                                                                         *)
(* The browser runs every callback to completion, so each action below is  *)
(* one callback run: a hook operation invoked by a caller, one of the page *)
(* handlers, the continuation of connect() after one of its awaits, or a   *)
(* listener of the data channel.  React state setters are modelled as      *)
(* assignments applied in program order.                                   *)
(***************************************************************************)
EXTENDS Integers, Sequences, FiniteSets, TLC

\* ---------------------------------------------------------------- bounds
\* number of connect() invocations over the life of one hook instance, in the
\* specification of the connection's life cycle (SessionSpec)
MaxConnects == 2
\* the same, in the specification of the conversation (Spec)
MaxSessions == 1
\* number of send calls that reach an open channel
MaxSends == 2
\* number of transcript fragment events between two response.created events
MaxFragments == 2
\* number of upstream requests the token route makes in one run
MaxMints == 3
\* length of the texts handed to the math parser, besides the named examples
MaxLen == 4
\* number of parser functions applied in a row to one text
MaxApplications == 3

Attempts == 1 .. MaxConnects

\* ------------------------------------------------------------ the values
NoType == "<undefined>"

\* the event kinds of handleServerEvent's switch
RecognizedKinds ==
    { "session.created", "session.updated", "input_audio_buffer.speech_started",
      "response.created", "response.output_audio_transcript.delta",
      "response.output_audio.delta", "response.done", "response.output_audio.done",
      "response.cancelled", "error" }

\* kinds the switch has no case for, and an object without a type field
UnrecognizedKinds == { "rate_limits.updated", "conversation.item.added", NoType }

\* an optional field is a set: {} when the field is missing, {v} when present
Deltas == { {}, {<<"a">>}, {<<"b">>} }
ErrorFields == { {}, {[message |-> {}]}, {[message |-> {"Rate limit reached"}]} }

EventObject(k, d, e) == [type |-> k, delta |-> d, error |-> e]

\* the payloads (e.data) a message event may carry
Inbound ==
    { [parse |-> "invalid", value |-> EventObject(NoType, {}, {})],
      [parse |-> "null", value |-> EventObject(NoType, {}, {})] }
    \cup { [parse |-> "object", value |-> EventObject(k, {}, {})] :
             k \in RecognizedKinds \cup UnrecognizedKinds }
    \cup { [parse |-> "object",
            value |-> EventObject("response.output_audio_transcript.delta", d, {})] :
             d \in Deltas }
    \cup { [parse |-> "object", value |-> EventObject("error", {}, e)] :
             e \in ErrorFields }
    \cup { [parse |-> "object",
            value |-> EventObject("rate_limits.updated", {<<"a">>},
                                  {[message |-> {"Rate limit reached"}]})] }

\* what SessionSpec delivers: enough to reach every phase
SessionInbound ==
    { [parse |-> "object", value |-> EventObject(k, {}, {})] :
        k \in {"response.created", "response.output_audio.delta", "error"} }

Texts == { "2+2" }

\* FileUpload hands over (base64, mimeType); the mime type is kept as the
\* pieces "image/" and the format so that String.replace can be modelled
Png == [base64 |-> "iVBOR", mimeType |-> <<"image/", "png">>]
Jpeg == [base64 |-> "/9j/4", mimeType |-> <<"image/", "jpeg">>]
Images == { Png, Jpeg }

NoImage == [base64 |-> "", mimeType |-> <<>>]

\* ------------------------------------------------------------- the state
VARIABLES
    state,          \* useState<TutorState>('idle')
    isConnected,    \* useState(false)
    transcript,     \* useState<string>(''), as a sequence of characters
    pcRef,          \* useRef<RTCPeerConnection>: 0 is null, i the pc of attempt i
    dcRef,          \* useRef<RTCDataChannel>
    audioRef,       \* useRef<HTMLAudioElement>
    pos,            \* where each connect() invocation stands
    pcClosed,       \* pc i has been closed
    dcState,        \* readyState of the channel of attempt i ("none": not created)
    closeEvt,       \* a close event of channel i is queued
    audioSrc,       \* audio element i has a srcObject
    frames,         \* what dc.send has enqueued on channel i
    fetches,        \* the HTTP requests connect() invocation i has issued
    micLive,        \* the microphone track getUserMedia gave attempt i is live
    calls,          \* the onError invocations of the callback run just finished
    closeCalls,     \* the close() calls of the callback run just finished
    uploadedImage,  \* TutorPage: the pending attachment
    sendLog,        \* history: the send calls that found their channel open
    fragments,      \* history: the delta fields received since response.created
    last,           \* history: the callback run just finished and the state before it
    apiKey,         \* route.ts: process.env.OPENAI_API_KEY
    route,          \* route.ts: where the POST handler stands
    outbound,       \* route.ts: the requests sent to the upstream service
    response,       \* route.ts: what the POST handler returned last
    exchange,       \* history: what the upstream did in the call that returned last
    expr,           \* mathParser: the string at hand
    applied         \* history: the parser functions applied so far, with their inputs

hookVars ==
    << state, isConnected, transcript, pcRef, dcRef, audioRef, pos, pcClosed,
       dcState, closeEvt, audioSrc, frames, fetches, micLive, calls, closeCalls,
       uploadedImage, sendLog, fragments, last >>

routeVars == << apiKey, route, outbound, response, exchange >>

parserVars == << expr, applied >>

vars == << hookVars, routeVars, parserVars >>

\* the program state as one value, so that a callback that calls another
\* (the close listener and connect's catch both call disconnect) composes
World ==
    [ state |-> state, isConnected |-> isConnected, transcript |-> transcript,
      pcRef |-> pcRef, dcRef |-> dcRef, audioRef |-> audioRef, pos |-> pos,
      pcClosed |-> pcClosed, dcState |-> dcState, closeEvt |-> closeEvt,
      audioSrc |-> audioSrc, frames |-> frames, fetches |-> fetches,
      micLive |-> micLive,
      calls |-> <<>>, closeCalls |-> <<>>,
      uploadedImage |-> uploadedImage ]

Install(w) ==
    /\ state' = w.state
    /\ isConnected' = w.isConnected
    /\ transcript' = w.transcript
    /\ pcRef' = w.pcRef
    /\ dcRef' = w.dcRef
    /\ audioRef' = w.audioRef
    /\ pos' = w.pos
    /\ pcClosed' = w.pcClosed
    /\ dcState' = w.dcState
    /\ closeEvt' = w.closeEvt
    /\ audioSrc' = w.audioSrc
    /\ frames' = w.frames
    /\ fetches' = w.fetches
    /\ micLive' = w.micLive
    /\ calls' = w.calls
    /\ closeCalls' = w.closeCalls
    /\ uploadedImage' = w.uploadedImage
    /\ UNCHANGED << routeVars, parserVars >>

RECURSIVE SumLen(_, _)
SumLen(f, n) == IF n = 0 THEN 0 ELSE Len(f[n]) + SumLen(f, n - 1)

\* all frames enqueued so far, over all channels
TotalFrames == SumLen(frames, MaxConnects)

ChannelOpen(w) == w.dcRef # 0 /\ w.dcState[w.dcRef] = "open"

\* what the history variable `last` keeps of the state before a callback run
Snapshot ==
    [ state |-> state, isConnected |-> isConnected, transcript |-> transcript,
      pcRef |-> pcRef, dcRef |-> dcRef, nframes |-> TotalFrames,
      open |-> ChannelOpen(World) ]

\* ------------------------------------------------- the hook's operations
setState(w, s) == [w EXCEPT !.state = s]

\* onError?.(message)
onError(w, message) == [w EXCEPT !.calls = Append(@, message)]

\* RTCDataChannel.close(): the channel leaves the open state at once and its
\* close event is queued, unless it was closed already
closeChannel(w, d) ==
    [w EXCEPT !.closeCalls = Append(@, <<"dc", d>>),
              !.closeEvt[d] = @ \/ w.dcState[d] \in {"connecting", "open"},
              !.dcState[d] = "closed"]

\* RTCPeerConnection.close(): closes the connection and its data channel
closePeer(w, p) ==
    [w EXCEPT !.closeCalls = Append(@, <<"pc", p>>),
              !.pcClosed[p] = TRUE,
              !.closeEvt[p] = @ \/ w.dcState[p] \in {"connecting", "open"},
              !.dcState[p] = IF @ = "none" THEN "none" ELSE "closed"]

detachAudio(w, a) == [w EXCEPT !.audioSrc[a] = FALSE]

\* disconnect as it would be without the pcRef block
disconnect_KeepsPeer(w) ==
    LET w1 == IF w.dcRef # 0
              THEN [closeChannel(w, w.dcRef) EXCEPT !.dcRef = 0]
              ELSE w
        w3 == IF w1.audioRef # 0 THEN detachAudio(w1, w1.audioRef) ELSE w1
    IN  setState([w3 EXCEPT !.isConnected = FALSE], "idle")

\* disconnect as it would be without the two "= null" assignments
disconnect_KeepsHandles(w) ==
    LET w1 == IF w.dcRef # 0 THEN closeChannel(w, w.dcRef) ELSE w
        w2 == IF w1.pcRef # 0 THEN closePeer(w1, w1.pcRef) ELSE w1
        w3 == IF w2.audioRef # 0 THEN detachAudio(w2, w2.audioRef) ELSE w2
    IN  setState([w3 EXCEPT !.isConnected = FALSE], "idle")

disconnect(w) ==
    LET w1 == IF w.dcRef # 0
              THEN [closeChannel(w, w.dcRef) EXCEPT !.dcRef = 0]
              ELSE w
        w2 == IF w1.pcRef # 0
              THEN [closePeer(w1, w1.pcRef) EXCEPT !.pcRef = 0]
              ELSE w1
        w3 == IF w2.audioRef # 0 THEN detachAudio(w2, w2.audioRef) ELSE w2
    IN  setState([w3 EXCEPT !.isConnected = FALSE], "idle")

\* the switch as it would be without the response.cancelled case
NextPhase_NoCancelled(kind, prev) ==
    CASE kind \in {"session.created", "session.updated"} -> "listening"
      [] kind = "input_audio_buffer.speech_started" -> "listening"
      [] kind = "response.created" -> "thinking"
      [] kind = "response.output_audio.delta" -> "speaking"
      [] kind \in {"response.done", "response.output_audio.done"} -> "listening"
      [] kind = "error" -> "idle"
      [] OTHER -> prev

\* the phase handleServerEvent leaves, given the event kind and the phase before
NextPhase(kind, prev) ==
    CASE kind \in {"session.created", "session.updated"} -> "listening"
      [] kind = "input_audio_buffer.speech_started" -> "listening"
      [] kind = "response.created" -> "thinking"
      [] kind = "response.output_audio_transcript.delta" -> prev
      [] kind = "response.output_audio.delta" -> "speaking"
      [] kind \in {"response.done", "response.output_audio.done"} -> "listening"
      [] kind = "response.cancelled" -> "listening"
      [] kind = "error" -> "idle"
      [] OTHER -> prev

\* event.delta ?? ''
DeltaOf(ev) == IF ev.delta = {} THEN <<>> ELSE CHOOSE d \in ev.delta : TRUE

\* the switch as it would be without setTranscript('') in response.created
NextTranscript_NoReset(ev, prev) ==
    IF ev.type = "response.output_audio_transcript.delta"
    THEN prev \o DeltaOf(ev)
    ELSE prev

NextTranscript(ev, prev) ==
    CASE ev.type = "response.created" -> <<>>
      [] ev.type = "response.output_audio_transcript.delta" -> prev \o DeltaOf(ev)
      [] OTHER -> prev

\* the error case as it would be if it always reported the fixed string
ErrorMessage_Fallback(ev) == "An error occurred"

\* event.error?.message ?? 'An error occurred'
ErrorMessage(ev) ==
    IF ev.error = {} THEN "An error occurred"
    ELSE LET e == CHOOSE e \in ev.error : TRUE
         IN  IF e.message = {} THEN "An error occurred"
             ELSE CHOOSE m \in e.message : TRUE

handleServerEvent(w, ev) ==
    LET w1 == IF ev.type = "error" THEN onError(w, ErrorMessage(ev)) ELSE w
    IN  [w1 EXCEPT !.state = NextPhase(ev.type, w.state),
                   !.transcript = NextTranscript(ev, w.transcript)]

\* the message listener as it would be if its catch reported the parse error
onMessage_ReportsInvalid(w, data) ==
    IF data.parse = "object" THEN handleServerEvent(w, data.value)
    ELSE setState(onError(w, "Invalid server event"), "idle")

\* the message listener: JSON.parse, then handleServerEvent; a parse error
\* and the TypeError of reading null.type are both swallowed by the catch
onMessage(w, data) ==
    IF data.parse = "object" THEN handleServerEvent(w, data.value) ELSE w

\* the open listener
onOpen(w) == setState([w EXCEPT !.isConnected = TRUE], "listening")

\* dc.send on the channel dcRef holds
send(w, frame) == [w EXCEPT !.frames[w.dcRef] = Append(@, frame)]

ResponseCreate == [type |-> "response.create"]

ItemCreate(content) ==
    [type |-> "conversation.item.create",
     item |-> [type |-> "message", role |-> "user", content |-> content]]

InputText(text) == [type |-> "input_text", text |-> text]

\* String.prototype.replace(piece, ''): the first occurrence only
RECURSIVE Replace(_, _)
Replace(str, piece) ==
    IF str = <<>> THEN <<>>
    ELSE IF Head(str) = piece THEN Tail(str)
    ELSE <<Head(str)>> \o Replace(Tail(str), piece)

\* `data:image/${format};base64,${base64Data}`
InputImage(base64Data, mimeType) ==
    [type |-> "input_image",
     image_url |-> <<"data:image/">> \o Replace(mimeType, "image/")
                   \o <<";base64,", base64Data>>]

\* the tail as it would be with the two dc.send calls swapped
sendItem_ResponseFirst(w, content) ==
    setState(send(send(w, ResponseCreate), ItemCreate(content)), "thinking")

\* the tail as it would be without setState('thinking')
sendItem_NoPhase(w, content) == send(send(w, ItemCreate(content)), ResponseCreate)

\* the tail the three send operations share
sendItem(w, content) ==
    setState(send(send(w, ItemCreate(content)), ResponseCreate), "thinking")

\* sendText as it would be if it tested only that the handle is set
sendText_NoReadyCheck(w, text) ==
    IF w.dcRef = 0 THEN w ELSE sendItem(w, <<InputText(text)>>)

sendText(w, text) ==
    IF ~ChannelOpen(w) THEN w ELSE sendItem(w, <<InputText(text)>>)

sendImage(w, base64Data, mimeType) ==
    IF ~ChannelOpen(w) THEN w ELSE sendItem(w, <<InputImage(base64Data, mimeType)>>)

sendTextWithImage(w, text, base64Data, mimeType) ==
    IF ~ChannelOpen(w) THEN w
    ELSE sendItem(w, <<InputText(text), InputImage(base64Data, mimeType)>>)

\* connect() as it would be if it asked for the token before the microphone
connectStart_TokenFirst(w, i) ==
    [setState(w, "thinking")
        EXCEPT !.pcRef = i, !.audioRef = i, !.pos[i] = "mic",
               !.fetches[i] = Append(@, [url |-> "/api/realtime/token", method |-> "POST"])]

\* ----------------------------------------------------------- connect()
\* connect() up to its first await: setState('thinking'), a new peer
\* connection and a new audio element into the refs, then getUserMedia
connectStart(w, i) ==
    [setState(w, "thinking") EXCEPT !.pcRef = i, !.audioRef = i, !.pos[i] = "mic"]

\* the catch block as it would be if it swallowed the error
connectCatch_Silent(w, i, message) == [w EXCEPT !.pos[i] = "failed"]

\* the catch block as it would be without its disconnect() call
connectCatch_NoDisconnect(w, i, message) ==
    [setState(onError(w, message), "idle") EXCEPT !.pos[i] = "failed"]

\* the catch block of connect()
connectCatch(w, i, message) ==
    [disconnect(setState(onError(w, message), "idle")) EXCEPT !.pos[i] = "failed"]

\* the message of the InvalidStateError a closed peer connection answers with
ClosedMessage == "The RTCPeerConnection's signalingState is 'closed'."

\* after getUserMedia: the stream it resolved with holds a live microphone
\* track; then addTrack (which throws on a closed connection),
\* createDataChannel, the listeners, createOffer
afterGetUserMedia(w, i, granted) ==
    IF ~granted THEN connectCatch(w, i, "Permission denied")
    ELSE LET w1 == [w EXCEPT !.micLive[i] = TRUE] IN
         IF w.pcClosed[i] THEN connectCatch(w1, i, ClosedMessage)
         ELSE [w1 EXCEPT !.dcState[i] = "connecting", !.dcRef = i, !.pos[i] = "offer"]

\* fetch(url, init) called by connect() invocation i
fetch(w, i, request) == [w EXCEPT !.fetches[i] = Append(@, request)]

TokenRequest == [url |-> "/api/realtime/token", method |-> "POST"]

SdpUrl == "https://api.openai.com/v1/realtime/calls"

\* the negotiation request: the offer, with `Bearer ${ephemeralKey}`
SdpRequest(ephemeralKey) ==
    [url |-> SdpUrl, method |-> "POST", Authorization |-> <<"Bearer ", ephemeralKey>>]

\* after createOffer and setLocalDescription(offer): fetch('/api/realtime/token')
afterOffer(w, i, ok) ==
    IF ~ok THEN connectCatch(w, i, ClosedMessage)
    ELSE [fetch(w, i, TokenRequest) EXCEPT !.pos[i] = "token"]

\* what the token request may come back with
TokenOutcomes == { "value", "no value", "error body", "no error body", "network" }

TokenFailure(outcome) ==
    CASE outcome = "error body" -> "OPENAI_API_KEY is not configured"
      [] outcome = "no error body" -> "Failed to get token"
      [] outcome = "no value" -> "No token received"
      [] OTHER -> "Failed to fetch"

\* the negotiation requests issued so far, as (attempt, index) pairs
Negotiations(w) ==
    { p \in Attempts \X (1 .. 3) :
        p[2] <= Len(w.fetches[p[1]]) /\ w.fetches[p[1]][p[2]].url = SdpUrl }

Bearers(w) == { w.fetches[p[1]][p[2]].Authorization[2] : p \in Negotiations(w) }

\* afterToken as it would be if the hook kept the first credential it got
afterToken_ReusesKey(w, i, outcome, value) ==
    IF outcome # "value" THEN connectCatch(w, i, TokenFailure(outcome))
    ELSE LET kept == IF Bearers(w) = {} THEN value ELSE CHOOSE b \in Bearers(w) : TRUE
         IN  [fetch(w, i, SdpRequest(kept)) EXCEPT !.pos[i] = "sdp"]

\* after the token response: { value: ephemeralKey } is read from it and the
\* SDP offer goes to the remote service with it
afterToken(w, i, outcome, value) ==
    IF outcome # "value" THEN connectCatch(w, i, TokenFailure(outcome))
    ELSE [fetch(w, i, SdpRequest(value)) EXCEPT !.pos[i] = "sdp"]

\* what the negotiation request may come back with
SdpOutcomes == { "answer", "error message", "timeout text", "other text", "network" }

SdpFailure(outcome) ==
    CASE outcome = "error message" -> "Invalid session"
      [] outcome = "timeout text" -> "OpenAI is taking too long. Please try again."
      [] outcome = "other text" -> "Failed to create session"
      [] OTHER -> "Failed to fetch"

\* after the negotiation response: setRemoteDescription(answer)
afterSdp(w, i, outcome) ==
    IF outcome # "answer" THEN connectCatch(w, i, SdpFailure(outcome))
    ELSE [w EXCEPT !.pos[i] = "remote"]

\* after setRemoteDescription: connect() returns
afterSetRemoteDescription(w, i, ok) ==
    IF ~ok THEN connectCatch(w, i, ClosedMessage)
    ELSE [w EXCEPT !.pos[i] = "done"]

\* ------------------------------------------------ the page's handlers
handleUpload(w, img) == [w EXCEPT !.uploadedImage = img]

handleSendImageOnly(w) ==
    IF w.uploadedImage # NoImage
    THEN [sendImage(w, w.uploadedImage.base64, w.uploadedImage.mimeType)
            EXCEPT !.uploadedImage = NoImage]
    ELSE w

\* handleTextSend as it would be without setUploadedImage(null)
handleTextSend_KeepsImage(w, text) ==
    IF w.uploadedImage # NoImage
    THEN sendTextWithImage(w, text, w.uploadedImage.base64, w.uploadedImage.mimeType)
    ELSE sendText(w, text)

handleTextSend(w, text) ==
    IF w.uploadedImage # NoImage
    THEN [sendTextWithImage(w, text, w.uploadedImage.base64, w.uploadedImage.mimeType)
            EXCEPT !.uploadedImage = NoImage]
    ELSE sendText(w, text)

clearUploadedImage(w) == [w EXCEPT !.uploadedImage = NoImage]

\* ------------------------------------------------------- the token route
\* a string that matters for its content is a sequence of pieces
Keys == { <<"sk-", "proj1", "AAAA">>, <<"sk-", "proj2", "BBBB">> }

\* process.env.OPENAI_API_KEY: unset, the empty string, or a key
Environments == { {}, {<<>>} } \cup { {k} : k \in Keys }

\* !apiKey
MissingKey(env) == env = {} \/ env = {<<>>}

\* NextResponse.json(body, { status }): an absent field of the body is {}
Json(value, error, details, status) ==
    [status |-> status, body |-> [value |-> value, error |-> error, details |-> details]]

NoResponse == Json({}, {}, {}, 0)

ConfigurationError == Json({}, {"OPENAI_API_KEY is not configured"}, {}, 500)

ClientSecretsUrl == "https://api.openai.com/v1/realtime/client_secrets"

\* the request of the fetch call: Authorization: `Bearer ${apiKey}`
UpstreamRequest(key) ==
    [url |-> ClientSecretsUrl, method |-> "POST", Authorization |-> <<"Bearer ">> \o key]

\* the statuses of an upstream answer that is not ok
FailureStatuses == { 400, 401, 429, 500 }

\* what the upstream service may do with a request: fail to answer, answer
\* with a failure status and some body, or answer 200 with some body
Behaviours ==
    { [status |-> 0, body |-> "none"] }
    \cup { [status |-> st, body |-> b] :
             st \in FailureStatuses, b \in {"empty", "error object", "quotes key", "masks key"} }
    \cup { [status |-> 200, body |-> b] :
             b \in {"not json", "null", "no value", "empty value", "secret"} }

\* the body text of a failure answer to request
FailureText(body, request) ==
    LET key == Tail(request.Authorization) IN
    CASE body = "empty" -> <<>>
      [] body = "error object" -> << "{\"error\":{\"message\":\"Rate limit reached\"}}" >>
      [] body = "quotes key" -> << "Incorrect API key provided: " >> \o key
      [] body = "masks key" ->
            << "Incorrect API key provided: ", key[1], "****", key[Len(key)] >>
      [] OTHER -> << body >>

\* the answer to the n-th request under behaviour b: thrown (fetch rejects),
\* status, ok, text (response.text()), json (how response.json() fares) and
\* value (the value field of the parsed object, when there is one)
Reply(b, request, n) ==
    [ thrown |-> b.status = 0,
      status |-> b.status,
      ok |-> b.status \in 200 .. 299,
      text |-> IF b.status \in FailureStatuses THEN FailureText(b.body, request) ELSE << b.body >>,
      json |-> CASE b.body = "not json" -> "invalid"
                 [] b.body = "null" -> "null"
                 [] OTHER -> "object",
      value |-> CASE b.body = "empty value" -> { <<>> }
                  [] b.body = "secret" -> { <<"ek_", ToString(n)>> }
                  [] OTHER -> {} ]

CaughtError == Json({}, {"Failed to create token"}, {}, 500)

\* the handler as it would be if it answered every upstream failure with 500
afterFetch_Status500(reply) ==
    IF reply.thrown \/ ~reply.ok THEN CaughtError
    ELSE IF reply.json # "object" THEN CaughtError
    ELSE IF reply.value = {} \/ reply.value = { <<>> }
         THEN Json({}, {"No token in response"}, {}, 500)
    ELSE Json(reply.value, {}, {}, 200)

\* POST after its fetch: a rejected fetch, response.json() throwing and the
\* TypeError of null.value all end in the catch block
afterFetch(reply) ==
    IF reply.thrown THEN CaughtError
    ELSE IF ~reply.ok
         THEN Json({}, {"Failed to create token"}, {reply.text}, reply.status)
    ELSE IF reply.json # "object" THEN CaughtError
    ELSE IF reply.value = {} \/ reply.value = { <<>> }
         THEN Json({}, {"No token in response"}, {}, 500)
    ELSE Json(reply.value, {}, {}, 200)

\* POST as a function of the environment and of what the upstream does with
\* the n-th request
POST(env, b, n) ==
    IF MissingKey(env) THEN ConfigurationError
    ELSE LET key == CHOOSE k \in env : TRUE
         IN  afterFetch(Reply(b, UpstreamRequest(key), n))

NoExchange == [behaviour |-> [status |-> 0, body |-> "no request"], n |-> 0]

\* ------------------------------------------------------- the math parser
\* a string is the sequence of its characters
Digit == { "0", "1", "2", "3", "4", "5", "6", "7", "8", "9" }

Letter ==
    { "a", "b", "c", "d", "e", "f", "g", "h", "i", "j", "k", "l", "m",
      "n", "o", "p", "q", "r", "s", "t", "u", "v", "w", "x", "y", "z",
      "A", "B", "C", "D", "E", "F", "G", "H", "I", "J", "K", "L", "M",
      "N", "O", "P", "Q", "R", "S", "T", "U", "V", "W", "X", "Y", "Z" }

\* \w and \d of a regular expression without the u flag
Word == Letter \cup Digit \cup { "_" }

WhiteSpace == { " ", "\t", "\n" }

RECURSIVE TrimStart(_)
TrimStart(str) ==
    IF str # <<>> /\ Head(str) \in WhiteSpace THEN TrimStart(Tail(str)) ELSE str

RECURSIVE TrimEnd(_)
TrimEnd(str) ==
    IF str # <<>> /\ str[Len(str)] \in WhiteSpace
    THEN TrimEnd(SubSeq(str, 1, Len(str) - 1))
    ELSE str

\* String.prototype.trim
Trim(str) == TrimEnd(TrimStart(str))

StartsWith(str, prefix) ==
    Len(str) >= Len(prefix) /\ SubSeq(str, 1, Len(prefix)) = prefix

EndsWith(str, suffix) ==
    Len(str) >= Len(suffix) /\ SubSeq(str, Len(str) - Len(suffix) + 1, Len(str)) = suffix

\* str.replace(/^open|close$/g, ''): the delimiter at the start goes if it is
\* there, and the one at the end goes if it is there in what is left
RemoveEnds(str, open, close) ==
    LET rest == IF StartsWith(str, open) THEN SubSeq(str, Len(open) + 1, Len(str)) ELSE str
    IN  IF EndsWith(rest, close) THEN SubSeq(rest, 1, Len(rest) - Len(close)) ELSE rest

\* the length of the longest run of characters of class at position p
RECURSIVE RunLength(_, _, _)
RunLength(str, p, class) ==
    IF p <= Len(str) /\ str[p] \in class THEN 1 + RunLength(str, p + 1, class) ELSE 0

\* (\d+|\w+) at position p: the digits if there is one, else the word characters
ArgLength(str, p) ==
    IF RunLength(str, p, Digit) > 0 THEN RunLength(str, p, Digit)
    ELSE RunLength(str, p, Word)

\* (\w+) as it would be if it were not greedy
BaseLength_Shortest(str, p, op) ==
    LET fits == { n \in 1 .. RunLength(str, p, Word) :
                    /\ p + n <= Len(str)
                    /\ str[p + n] = op
                    /\ ArgLength(str, p + n + 1) > 0 }
    IN  IF fits = {} THEN 0 ELSE CHOOSE n \in fits : \A m \in fits : n <= m

\* (\w+) of a match of /(\w+)op(\d+|\w+)/ starting at position p: the longest
\* run of word characters that leaves the rest of the pattern a match (0: no
\* match starts at p)
BaseLength(str, p, op) ==
    LET fits == { n \in 1 .. RunLength(str, p, Word) :
                    /\ p + n <= Len(str)
                    /\ str[p + n] = op
                    /\ ArgLength(str, p + n + 1) > 0 }
    IN  IF fits = {} THEN 0 ELSE CHOOSE n \in fits : \A m \in fits : m <= n

\* the matches of /(\w+)op(\d+|\w+)/g in str from position p on, leftmost
\* first and without overlap, each as [at, base, arg]
RECURSIVE Matches(_, _, _)
Matches(str, p, op) ==
    IF p > Len(str) THEN <<>>
    ELSE LET b == BaseLength(str, p, op) IN
         IF b = 0 THEN Matches(str, p + 1, op)
         ELSE LET a == ArgLength(str, p + b + 1) IN
              << [at |-> p, base |-> SubSeq(str, p, p + b - 1),
                  arg |-> SubSeq(str, p + b + 1, p + b + a)] >>
              \o Matches(str, p + b + a + 1, op)

\* the replacement `${base}op{${arg}}` put in place of each match
RECURSIVE Rebuild(_, _, _, _)
Rebuild(str, p, op, matches) ==
    IF matches = <<>> THEN SubSeq(str, p, Len(str))
    ELSE LET m == Head(matches) IN
         SubSeq(str, p, m.at - 1) \o m.base \o << op, "{" >> \o m.arg \o << "}" >>
         \o Rebuild(str, m.at + Len(m.base) + 1 + Len(m.arg), op, Tail(matches))

\* str.replace(/(\w+)op(\d+|\w+)/g, (match, base, arg) => `${base}op{${arg}}`)
Substitute(str, op) == Rebuild(str, 1, op, Matches(str, 1, op))

Dollar == << "$" >>
OpenParen == << "\\", "(" >>
CloseParen == << "\\", ")" >>
OpenBracket == << "\\", "[" >>
CloseBracket == << "\\", "]" >>

hasLaTeXDelimiters(trimmed) ==
    \/ StartsWith(trimmed, Dollar)
    \/ StartsWith(trimmed, OpenParen)
    \/ StartsWith(trimmed, OpenBracket)

\* the text the two substitutions work on
Processed(trimmed) ==
    IF hasLaTeXDelimiters(trimmed)
    THEN RemoveEnds(RemoveEnds(RemoveEnds(trimmed, Dollar, Dollar),
                               OpenParen, CloseParen),
                    OpenBracket, CloseBracket)
    ELSE trimmed

convertToLaTeX(input) ==
    IF Trim(input) = <<>> THEN <<>>
    ELSE Dollar \o Substitute(Substitute(Processed(Trim(input)), "^"), "_") \o Dollar

\* String.prototype.slice(from, -back)
Slice(str, from, back) == SubSeq(str, from + 1, Len(str) - back)

\* stripLatexDelimiters as it would be if it returned its argument, not the
\* trimmed text, when it finds no pair
stripLatexDelimiters_ReturnsInput(latex) ==
    LET trimmed == Trim(latex) IN
    IF StartsWith(trimmed, Dollar) /\ EndsWith(trimmed, Dollar)
    THEN Trim(Slice(trimmed, 1, 1))
    ELSE IF StartsWith(trimmed, OpenParen) /\ EndsWith(trimmed, CloseParen)
    THEN Trim(Slice(trimmed, 2, 2))
    ELSE IF StartsWith(trimmed, OpenBracket) /\ EndsWith(trimmed, CloseBracket)
    THEN Trim(Slice(trimmed, 2, 2))
    ELSE latex

\* stripLatexDelimiters as it would be with slice(1) in place of slice(1, -1)
stripLatexDelimiters_KeepsClosing(latex) ==
    LET trimmed == Trim(latex) IN
    IF StartsWith(trimmed, Dollar) /\ EndsWith(trimmed, Dollar)
    THEN Trim(Slice(trimmed, 1, 0))
    ELSE IF StartsWith(trimmed, OpenParen) /\ EndsWith(trimmed, CloseParen)
    THEN Trim(Slice(trimmed, 2, 2))
    ELSE IF StartsWith(trimmed, OpenBracket) /\ EndsWith(trimmed, CloseBracket)
    THEN Trim(Slice(trimmed, 2, 2))
    ELSE trimmed

stripLatexDelimiters(latex) ==
    LET trimmed == Trim(latex) IN
    IF StartsWith(trimmed, Dollar) /\ EndsWith(trimmed, Dollar)
    THEN Trim(Slice(trimmed, 1, 1))
    ELSE IF StartsWith(trimmed, OpenParen) /\ EndsWith(trimmed, CloseParen)
    THEN Trim(Slice(trimmed, 2, 2))
    ELSE IF StartsWith(trimmed, OpenBracket) /\ EndsWith(trimmed, CloseBracket)
    THEN Trim(Slice(trimmed, 2, 2))
    ELSE trimmed

\* MathEditor: useState(initialLatex.replace(/^\$|\$$/g, '')), the text the
\* editor shows when a block is opened
initialInput(initialLatex) == RemoveEnds(initialLatex, Dollar, Dollar)

\* MathEditor's handleSave: what onSave receives, nothing when the input is blank
handleSave(input) == IF Trim(input) = <<>> THEN {} ELSE { convertToLaTeX(input) }

\* MathEditor's preview: stripLatexDelimiters(convertToLaTeX(input))
rawLatex(input) == stripLatexDelimiters(convertToLaTeX(input))

\* the characters of the typed texts
Alphabet == { "x", "2", "^", "_", " ", "$" }

\* every string over Alphabet of length n
RECURSIVE StringsOf(_)
StringsOf(n) ==
    IF n = 0 THEN { <<>> }
    ELSE { <<c>> \o str : c \in Alphabet, str \in StringsOf(n - 1) }

\* the examples of the parser's documentation, and texts longer than MaxLen
\* that put two patterns next to each other
Examples ==
    { << "x", "^", "2", " ", "+", " ", "y", "^", "2" >>,
      << "x", "^", "2", "3" >>,
      << "x", "_", "i" >>,
      << "\\", "f", "r", "a", "c", "{", "a", "}", "{", "b", "}" >>,
      << "x", "^", "2", "_", "1", "2" >>,
      << "x", "_", "1", "^", "2" >>,
      << "x", "^", "2", "^", "3" >>,
      << "a", "_", "b", "_", "c" >>,
      << "x", "^", "a", "_", "b" >>,
      << "x", "^", "2", "a", "b" >>,
      << "\\", "(", "x", "^", "2", "\\", ")" >>,
      << "\\", "[", "x", "_", "2", "\\", "]" >>,
      << "$", " ", "x", "^", "2", " ", "$" >> }

Inputs == UNION { StringsOf(n) : n \in 0 .. MaxLen } \cup Examples

\* ---------------------------------------------------------------- Init
NoArg == [none |-> TRUE]

HookInit ==
    /\ state = "idle"
    /\ isConnected = FALSE
    /\ transcript = <<>>
    /\ pcRef = 0
    /\ dcRef = 0
    /\ audioRef = 0
    /\ pos = [i \in Attempts |-> "none"]
    /\ pcClosed = [i \in Attempts |-> FALSE]
    /\ dcState = [i \in Attempts |-> "none"]
    /\ closeEvt = [i \in Attempts |-> FALSE]
    /\ audioSrc = [i \in Attempts |-> FALSE]
    /\ frames = [i \in Attempts |-> <<>>]
    /\ fetches = [i \in Attempts |-> <<>>]
    /\ micLive = [i \in Attempts |-> FALSE]
    /\ calls = <<>>
    /\ closeCalls = <<>>
    /\ uploadedImage = NoImage
    /\ sendLog = <<>>
    /\ fragments = <<>>
    /\ last = [op |-> "init", via |-> "init", ch |-> 0, arg |-> NoArg, pre |-> Snapshot]

\* no request has reached the token route
RouteAtRest ==
    /\ apiKey = {}
    /\ route = "ready"
    /\ outbound = <<>>
    /\ response = NoResponse
    /\ exchange = NoExchange

\* nothing has been handed to the math parser
ParserAtRest ==
    /\ expr = <<>>
    /\ applied = <<>>

Init == HookInit /\ RouteAtRest /\ ParserAtRest

\* the token route in any environment
RouteInit ==
    /\ HookInit
    /\ ParserAtRest
    /\ apiKey \in Environments
    /\ route = "ready"
    /\ outbound = <<>>
    /\ response = NoResponse
    /\ exchange = NoExchange

\* the math parser with any text
ParserInit ==
    /\ HookInit
    /\ RouteAtRest
    /\ expr \in Inputs
    /\ applied = <<>>

\* the history variables of a callback run that is neither a send nor a message
Ran(op, via, ch, arg) ==
    last' = [op |-> op, via |-> via, ch |-> ch, arg |-> arg, pre |-> Snapshot]

Quiet == UNCHANGED << sendLog, fragments >>

\* the attempt a connect() invoked now would be
NextAttempt == Cardinality({i \in Attempts : pos[i] # "none"}) + 1

\* a send may still be logged
SendRoom == ChannelOpen(World) => TotalFrames < 2 * MaxSends

Logged(op, text, img) ==
    sendLog' = IF ChannelOpen(World)
               THEN Append(sendLog, [op |-> op, ch |-> dcRef, text |-> text, image |-> img])
               ELSE sendLog

\* ------------------------------------------- the hook called by any caller
Connect(limit) ==
    /\ NextAttempt <= limit
    /\ Install(connectStart(World, NextAttempt))
    /\ Ran("connect", "caller", NextAttempt, NoArg)
    /\ Quiet

Disconnect ==
    /\ Install(disconnect(World))
    /\ Ran("disconnect", "caller", 0, NoArg)
    /\ Quiet

SendText ==
    \E text \in Texts :
        /\ SendRoom
        /\ Install(sendText(World, text))
        /\ Ran("sendText", "caller", dcRef, [text |-> text])
        /\ Logged("sendText", text, NoImage)
        /\ UNCHANGED fragments

SendImage ==
    \E img \in {Jpeg} :
        /\ SendRoom
        /\ Install(sendImage(World, img.base64, img.mimeType))
        /\ Ran("sendImage", "caller", dcRef, [image |-> img])
        /\ Logged("sendImage", "", img)
        /\ UNCHANGED fragments

SendTextWithImage ==
    \E text \in Texts, img \in {Png} :
        /\ SendRoom
        /\ Install(sendTextWithImage(World, text, img.base64, img.mimeType))
        /\ Ran("sendTextWithImage", "caller", dcRef, [text |-> text, image |-> img])
        /\ Logged("sendTextWithImage", text, img)
        /\ UNCHANGED fragments

\* --------------------------------------------------- the tutor page's UI
\* "Start tutoring" is rendered while !isConnected
ClickStart ==
    /\ ~isConnected
    /\ NextAttempt \in Attempts
    /\ Install(connectStart(World, NextAttempt))
    /\ Ran("connect", "Start tutoring", NextAttempt, NoArg)
    /\ Quiet

\* everything else is rendered while isConnected
ClickEnd ==
    /\ isConnected
    /\ Install(disconnect(World))
    /\ Ran("disconnect", "End session", 0, NoArg)
    /\ Quiet

\* FileUpload is disabled while the phase is thinking
Upload ==
    \E img \in Images :
        /\ isConnected
        /\ state # "thinking"
        /\ Install(handleUpload(World, img))
        /\ Ran("handleUpload", "FileUpload", 0, [image |-> img])
        /\ Quiet

Remove ==
    /\ isConnected
    /\ uploadedImage # NoImage
    /\ Install(clearUploadedImage(World))
    /\ Ran("clearUploadedImage", "Remove", 0, NoArg)
    /\ Quiet

\* "Get help with this problem" is disabled while the phase is thinking
GetHelp ==
    /\ isConnected
    /\ uploadedImage # NoImage
    /\ state # "thinking"
    /\ SendRoom
    /\ Install(handleSendImageOnly(World))
    /\ Ran("sendImage", "handleSendImageOnly", dcRef, [image |-> uploadedImage])
    /\ Logged("sendImage", "", uploadedImage)
    /\ UNCHANGED fragments

\* TextInput is disabled while the phase is thinking
SubmitText ==
    \E text \in Texts :
        /\ isConnected
        /\ state # "thinking"
        /\ SendRoom
        /\ Install(handleTextSend(World, text))
        /\ Ran(IF uploadedImage # NoImage THEN "sendTextWithImage" ELSE "sendText",
               "handleTextSend", dcRef, [text |-> text, image |-> uploadedImage])
        /\ Logged(IF uploadedImage # NoImage THEN "sendTextWithImage" ELSE "sendText",
                  text, uploadedImage)
        /\ UNCHANGED fragments

\* ----------------------------------------- the continuations of connect()
\* a request on a peer connection closed in the meantime is rejected
Settles(i, ok) == pcClosed[i] => ~ok

GetUserMediaSettles ==
    \E i \in Attempts, granted \in BOOLEAN :
        /\ pos[i] = "mic"
        /\ Install(afterGetUserMedia(World, i, granted))
        /\ Ran("afterGetUserMedia", "connect", i, [ok |-> granted])
        /\ Quiet

OfferSettles ==
    \E i \in Attempts, ok \in BOOLEAN :
        /\ pos[i] = "offer"
        /\ Settles(i, ok)
        /\ Install(afterOffer(World, i, ok))
        /\ Ran("afterOffer", "connect", i, [ok |-> ok])
        /\ Quiet

\* the service mints a new client secret for every request it answers with one
NextSecret == <<"ek_", Cardinality(Negotiations(World)) + 1>>

TokenSettles ==
    \E i \in Attempts, outcome \in TokenOutcomes :
        LET value == IF outcome = "value" THEN NextSecret ELSE <<>> IN
        /\ pos[i] = "token"
        /\ Install(afterToken(World, i, outcome, value))
        /\ Ran("afterToken", "connect", i, [outcome |-> outcome, value |-> value])
        /\ Quiet

SdpSettles ==
    \E i \in Attempts, outcome \in SdpOutcomes :
        /\ pos[i] = "sdp"
        /\ Install(afterSdp(World, i, outcome))
        /\ Ran("afterSdp", "connect", i, [outcome |-> outcome])
        /\ Quiet

SetRemoteDescriptionSettles ==
    \E i \in Attempts, ok \in BOOLEAN :
        /\ pos[i] = "remote"
        /\ Settles(i, ok)
        /\ Install(afterSetRemoteDescription(World, i, ok))
        /\ Ran("afterSetRemoteDescription", "connect", i, [ok |-> ok])
        /\ Quiet

\* ------------------------------------------------ the transport's events
\* pc.ontrack: the remote audio stream goes to the attempt's own audio element
OnTrack ==
    \E i \in Attempts :
        /\ pos[i] \in {"remote", "done"}
        /\ ~pcClosed[i]
        /\ ~audioSrc[i]
        /\ Install([World EXCEPT !.audioSrc[i] = TRUE])
        /\ Ran("ontrack", "pc", i, NoArg)
        /\ Quiet

\* the channel opens once the answer has been applied
DcOpen ==
    \E i \in Attempts :
        /\ dcState[i] = "connecting"
        /\ pos[i] = "done"
        /\ ~pcClosed[i]
        /\ Install(onOpen([World EXCEPT !.dcState[i] = "open"]))
        /\ Ran("open", "dc", i, NoArg)
        /\ Quiet

FragmentsAfter(data) ==
    IF data.parse # "object" THEN fragments
    ELSE IF data.value.type = "response.created" THEN <<>>
    ELSE IF data.value.type = "response.output_audio_transcript.delta"
         THEN Append(fragments, data.value.delta)
    ELSE fragments

DcMessage(payloads) ==
    \E i \in Attempts, data \in payloads :
        /\ dcState[i] = "open"
        /\ Len(FragmentsAfter(data)) <= MaxFragments
        /\ Install(onMessage(World, data))
        /\ Ran("message", "dc", i, data)
        /\ fragments' = FragmentsAfter(data)
        /\ UNCHANGED sendLog

\* the queued close event of a channel closed from this side
DcCloseEvent ==
    \E i \in Attempts :
        /\ closeEvt[i]
        /\ Install(disconnect([World EXCEPT !.closeEvt[i] = FALSE]))
        /\ Ran("close", "dc", i, NoArg)
        /\ Quiet

\* the channel is closed by the remote side or by the transport failing
DcClosedRemotely ==
    \E i \in Attempts :
        /\ dcState[i] = "open"
        /\ Install(disconnect([World EXCEPT !.dcState[i] = "closed"]))
        /\ Ran("close", "remote", i, NoArg)
        /\ Quiet

\* what the browser does on its own: connect()'s awaits settle, events fire
Environment ==
    \/ GetUserMediaSettles \/ OfferSettles
    \/ TokenSettles \/ SdpSettles \/ SetRemoteDescriptionSettles
    \/ OnTrack \/ DcOpen \/ DcCloseEvent \/ DcClosedRemotely

\* the conversation: the hook driven through its returned operations by any
\* caller, every payload delivered
Next ==
    \/ Connect(MaxSessions) \/ Disconnect
    \/ SendText \/ SendImage \/ SendTextWithImage
    \/ DcMessage(Inbound)
    \/ Environment

Spec == Init /\ [][Next]_vars

\* the connection's life cycle: connect and disconnect in any order and number
SessionNext ==
    \/ Connect(MaxConnects) \/ Disconnect
    \/ DcMessage(SessionInbound)
    \/ Environment

SessionSpec == Init /\ [][SessionNext]_vars

\* every pending await of connect() settles, and the open event of a channel
\* fires once the answer has been applied
AwaitsSettle ==
    /\ WF_vars(GetUserMediaSettles)
    /\ WF_vars(OfferSettles)
    /\ WF_vars(TokenSettles)
    /\ WF_vars(SdpSettles)
    /\ WF_vars(SetRemoteDescriptionSettles)
    /\ WF_vars(DcOpen)

OpensAfterAnswer == \A i \in Attempts : (pos[i] = "done") ~> (dcState[i] = "open")

\* the connection's life cycle when the browser keeps its promises
LiveSpec == Init /\ [][SessionNext]_vars /\ AwaitsSettle /\ OpensAfterAnswer

\* the hook driven by the tutor page's controls
PageNext ==
    \/ ClickStart \/ ClickEnd \/ Upload \/ Remove \/ GetHelp \/ SubmitText
    \/ DcMessage(SessionInbound)
    \/ Environment

PageSpec == Init /\ [][PageNext]_vars

\* ------------------------------------------------- the token route's steps
\* POST up to its await: without a key it returns at once, with one it sends
\* the upstream request
PostCalled ==
    /\ route = "ready"
    /\ Len(outbound) < MaxMints
    /\ IF MissingKey(apiKey)
       THEN /\ response' = ConfigurationError
            /\ UNCHANGED << route, outbound >>
       ELSE /\ response' = NoResponse
            /\ route' = "fetching"
            /\ outbound' = Append(outbound, UpstreamRequest(CHOOSE k \in apiKey : TRUE))
    /\ exchange' = NoExchange
    /\ UNCHANGED << apiKey, hookVars, parserVars >>

\* the upstream answers (or the fetch rejects) and POST returns
UpstreamSettles ==
    \E b \in Behaviours :
        /\ route = "fetching"
        /\ response' = afterFetch(Reply(b, outbound[Len(outbound)], Len(outbound)))
        /\ exchange' = [behaviour |-> b, n |-> Len(outbound)]
        /\ route' = "ready"
        /\ UNCHANGED << apiKey, outbound, hookVars, parserVars >>

RouteNext == PostCalled \/ UpstreamSettles

RouteSpec == RouteInit /\ [][RouteNext]_vars

\* ------------------------------------------------- the math parser's calls
ConvertToLaTeX ==
    /\ Len(applied) < MaxApplications
    /\ expr' = convertToLaTeX(expr)
    /\ applied' = Append(applied, [fn |-> "convertToLaTeX", input |-> expr])
    /\ UNCHANGED << hookVars, routeVars >>

StripLatexDelimiters ==
    /\ Len(applied) < MaxApplications
    /\ expr' = stripLatexDelimiters(expr)
    /\ applied' = Append(applied, [fn |-> "stripLatexDelimiters", input |-> expr])
    /\ UNCHANGED << hookVars, routeVars >>

ParserNext == ConvertToLaTeX \/ StripLatexDelimiters

ParserSpec == ParserInit /\ [][ParserNext]_vars

\* ===================================================================
\* The claims
\* ===================================================================
SendOps == { "sendText", "sendImage", "sendTextWithImage" }

\* the sends logged for channel ch, in invocation order
SendsOn(ch) == LET OnCh(e) == e.ch = ch IN SelectSeq(sendLog, OnCh)

\* the kinds of the content parts a send operation puts in its message
PartsOf(op) ==
    CASE op = "sendText" -> <<"input_text">>
      [] op = "sendImage" -> <<"input_image">>
      [] op = "sendTextWithImage" -> <<"input_text", "input_image">>

PartKinds(frame) == [k \in DOMAIN frame.item.content |-> frame.item.content[k].type]

\* C1: every send made while the channel is open enqueues exactly two frames,
\* one conversation.item.create and then one response.create; the frames of a
\* channel are these pairs, one per send on it, in the order of the calls.
C1_FramePairs ==
    /\ \A ch \in Attempts :
          LET log == SendsOn(ch) IN
          /\ Len(frames[ch]) = 2 * Len(log)
          /\ \A k \in 1 .. Len(log) :
                /\ frames[ch][2 * k - 1].type = "conversation.item.create"
                /\ PartKinds(frames[ch][2 * k - 1]) = PartsOf(log[k].op)
                /\ frames[ch][2 * k] = [type |-> "response.create"]
    /\ (last.op \in SendOps /\ last.pre.open) =>
          /\ TotalFrames = last.pre.nframes + 2
          /\ Len(frames[last.ch]) >= 2
          /\ frames[last.ch][Len(frames[last.ch])] = [type |-> "response.create"]
          /\ frames[last.ch][Len(frames[last.ch]) - 1].type = "conversation.item.create"

\* C1 witness: two sends of different kinds have gone out on one channel
C1_Witness ==
    \E ch \in Attempts :
        /\ Len(frames[ch]) = 4
        /\ Len(SendsOn(ch)) = 2
        /\ SendsOn(ch)[1].op # SendsOn(ch)[2].op
        /\ last.op \in SendOps
        /\ last.pre.open

\* C2: a send made while the channel is open leaves the phase thinking,
\* whatever the phase was before the call.
C2_SendSetsThinking ==
    (last.op \in SendOps /\ last.pre.open) => state = "thinking"

\* C2 witness: a send made in phase idle (after an error event) on an open channel
C2_Witness ==
    /\ last.op \in SendOps
    /\ last.pre.open
    /\ last.pre.state = "idle"
    /\ state = "thinking"

\* C3: a send made while the channel handle is absent or the channel is not
\* open does nothing: no frame, no change of phase, transcript or isConnected,
\* no error callback.
C3_SendWhenNotOpen ==
    (last.op \in SendOps /\ ~last.pre.open) =>
        /\ TotalFrames = last.pre.nframes
        /\ state = last.pre.state
        /\ transcript = last.pre.transcript
        /\ isConnected = last.pre.isConnected
        /\ calls = <<>>

\* C3 witness: a send on a channel that exists but is still connecting
C3_Witness ==
    /\ last.op \in SendOps
    /\ ~last.pre.open
    /\ last.pre.dcRef # 0
    /\ dcState[last.pre.dcRef] = "connecting"

IsEvent(kind) ==
    /\ last.op = "message"
    /\ last.arg.parse = "object"
    /\ last.arg.value.type = kind

\* C4: an error event, in any phase, leaves the phase idle and calls the error
\* callback exactly once, with error.message when the event has one and with
\* 'An error occurred' when it has none.
C4_ErrorEvent ==
    IsEvent("error") =>
        /\ state = "idle"
        /\ Len(calls) = 1
        /\ \A e \in last.arg.value.error : \A m \in e.message : calls[1] = m
        /\ (\A e \in last.arg.value.error : e.message = {}) =>
              calls[1] = "An error occurred"

\* C4 witness: an error event with a message arrives while the tutor speaks
C4_Witness ==
    /\ IsEvent("error")
    /\ last.pre.state = "speaking"
    /\ last.arg.value.error = {[message |-> {"Rate limit reached"}]}
    /\ calls = <<"Rate limit reached">>

\* C5: a disconnect request or a close event of a channel, in any phase and
\* also while a connect is in flight, leaves the channel the handle held closed
\* and the handle cleared, the peer connection the handle held closed and the
\* handle cleared, the audio element detached, isConnected false, phase idle.
C5_Teardown ==
    last.op \in {"disconnect", "close"} =>
        /\ dcRef = 0
        /\ pcRef = 0
        /\ last.pre.dcRef # 0 => dcState[last.pre.dcRef] = "closed"
        /\ last.pre.pcRef # 0 => pcClosed[last.pre.pcRef]
        /\ last.op = "close" => dcState[last.ch] = "closed"
        /\ audioRef # 0 => ~audioSrc[audioRef]
        /\ ~isConnected
        /\ state = "idle"

\* C5 witness: disconnect while connect awaits the negotiation response
C5_Witness ==
    /\ last.op = "disconnect"
    /\ last.pre.dcRef # 0
    /\ last.pre.pcRef = last.pre.dcRef
    /\ pos[last.pre.dcRef] = "sdp"
    /\ last.pre.state = "thinking"

Cleared(w) == [w EXCEPT !.calls = <<>>, !.closeCalls = <<>>]

\* C6: disconnect is idempotent: a disconnect right after a disconnect, or with
\* no session, closes nothing, calls no callback and leaves the state of a
\* single disconnect.
C6_DisconnectIdempotent ==
    /\ LET once == Cleared(disconnect(World))
           twice == disconnect(once)
       IN  /\ twice.closeCalls = <<>>
           /\ twice.calls = <<>>
           /\ Cleared(twice) = once
    /\ (last.op = "disconnect" /\ last.pre.dcRef = 0 /\ last.pre.pcRef = 0) =>
          /\ closeCalls = <<>>
          /\ calls = <<>>
          /\ state = "idle"
          /\ ~isConnected
          /\ dcRef = 0
          /\ pcRef = 0

\* C6 witness: disconnect invoked after an open session was torn down
C6_Witness ==
    /\ last.op = "disconnect"
    /\ last.pre.dcRef = 0
    /\ last.pre.pcRef = 0
    /\ last.pre.state = "idle"
    /\ \E i \in Attempts : pcClosed[i] /\ dcState[i] = "closed" /\ pos[i] = "done"

\* the sessions of this hook that are live: created and not closed
Live == { i \in Attempts : pos[i] # "none" /\ ~pcClosed[i] }

\* C7: at most one session of the hook is live at any time.
C7_AtMostOneLive == Cardinality(Live) <= 1

RECURSIVE Concat(_)
Concat(log) ==
    IF log = <<>> THEN <<>>
    ELSE (IF Head(log) = {} THEN <<>> ELSE CHOOSE d \in Head(log) : TRUE)
         \o Concat(Tail(log))

\* C8: the transcript is the concatenation, in delivery order, of the deltas of
\* the fragment events received since the last response.created (a missing
\* delta counts as empty); response.created empties it; a fragment event
\* leaves the phase alone.
C8_Transcript ==
    /\ transcript = Concat(fragments)
    /\ IsEvent("response.created") => transcript = <<>>
    /\ IsEvent("response.output_audio_transcript.delta") => state = last.pre.state

\* C8 witness: two different fragments arrive, in this order, while the tutor speaks
C8_Witness ==
    /\ fragments = << {<<"a">>}, {<<"b">>} >>
    /\ transcript = <<"a", "b">>
    /\ IsEvent("response.output_audio_transcript.delta")
    /\ last.pre.state = "speaking"

\* C8 second witness: response.created arrives on a transcript that is not empty
C8_ResetWitness ==
    /\ IsEvent("response.created")
    /\ last.pre.transcript # <<>>
    /\ transcript = <<>>

\* C9: the phase after a recognized event depends on its kind alone; a
\* transcript fragment leaves the phase as it was.
C9_PhaseByKind ==
    (last.op = "message" /\ last.arg.parse = "object"
       /\ last.arg.value.type \in RecognizedKinds) =>
        LET kind == last.arg.value.type IN
        /\ kind \in { "session.created", "session.updated",
                      "input_audio_buffer.speech_started", "response.done",
                      "response.output_audio.done", "response.cancelled" }
              => state = "listening"
        /\ kind = "response.created" => state = "thinking"
        /\ kind = "response.output_audio.delta" => state = "speaking"
        /\ kind = "error" => state = "idle"
        /\ kind = "response.output_audio_transcript.delta" => state = last.pre.state

\* C9 witness: response.cancelled arrives in phase idle
C9_Witness ==
    /\ IsEvent("response.cancelled")
    /\ last.pre.state = "idle"
    /\ state = "listening"

\* C10: a frame of an unrecognized kind, or one that is no JSON object, is
\* ignored: phase, transcript, isConnected and the handles stay, nothing is
\* sent, the error callback is not called.
C10_Ignored ==
    (last.op = "message"
       /\ (last.arg.parse # "object" \/ last.arg.value.type \notin RecognizedKinds)) =>
        /\ state = last.pre.state
        /\ transcript = last.pre.transcript
        /\ isConnected = last.pre.isConnected
        /\ pcRef = last.pre.pcRef
        /\ dcRef = last.pre.dcRef
        /\ TotalFrames = last.pre.nframes
        /\ calls = <<>>

\* C10 witness: an unrecognized kind carrying delta and error fields arrives
\* while the tutor speaks and a transcript is shown
C10_Witness ==
    /\ last.op = "message"
    /\ last.arg.value.type = "rate_limits.updated"
    /\ last.arg.value.delta # {}
    /\ last.arg.value.error # {}
    /\ last.pre.state = "speaking"
    /\ transcript # <<>>

\* C10 second witness: a payload that is not JSON
C10_InvalidWitness ==
    /\ last.op = "message"
    /\ last.arg.parse = "invalid"
    /\ last.pre.state = "speaking"

\* C11: in every reachable state, phase idle implies no live connection (no
\* open message channel and isConnected false), and phase listening implies
\* that the message channel is open.
C11_PhaseMatchesConnection ==
    /\ state = "idle" => (~ChannelOpen(World) /\ ~isConnected)
    /\ state = "listening" => ChannelOpen(World)

\* a connect request whose channel has not opened yet and that nothing ended
Connecting(i) ==
    /\ pos[i] \in {"mic", "offer", "token", "sdp", "remote", "done"}
    /\ dcState[i] \in {"none", "connecting"}
    /\ ~pcClosed[i]

\* C12: the open event of the message channel leaves isConnected true and the
\* phase listening; from a connect request until the open event of its channel
\* isConnected is false and the phase is thinking.
C12_OpenEvent ==
    /\ last.op = "open" => (isConnected /\ state = "listening")
    /\ \A i \in Attempts : Connecting(i) => (~isConnected /\ state = "thinking")

ConnectSteps ==
    { "afterGetUserMedia", "afterOffer", "afterToken", "afterSdp",
      "afterSetRemoteDescription" }

\* the step of connect() just run met a failure
StepFailed ==
    /\ last.op \in ConnectSteps
    /\ \/ last.op \in {"afterToken", "afterSdp"} /\ last.arg.outcome \notin {"value", "answer"}
       \/ last.op \notin {"afterToken", "afterSdp"} /\ ~last.arg.ok
       \/ last.op = "afterGetUserMedia" /\ pcClosed[last.ch]

\* the messages connect() hands to the error callback
ConnectMessages ==
    { "Permission denied", ClosedMessage }
    \cup { TokenFailure(o) : o \in TokenOutcomes \ {"value"} }
    \cup { SdpFailure(o) : o \in SdpOutcomes \ {"answer"} }

\* C13: a failure at any step of connect (microphone denied, credential request
\* failed or without token, negotiation request failed, applying the answer
\* failed) ends inside connect: the invocation completes, the error callback
\* has been called exactly once, with a message string, the phase is idle,
\* isConnected is false and both handles are cleared.
C13_ConnectFailure ==
    /\ StepFailed => pos[last.ch] = "failed"
    /\ (last.op \in ConnectSteps /\ pos[last.ch] = "failed") =>
          /\ Len(calls) = 1
          /\ calls[1] \in ConnectMessages
          /\ state = "idle"
          /\ ~isConnected
          /\ dcRef = 0
          /\ pcRef = 0

\* C13 witness: the negotiation request times out while both handles are set
C13_Witness ==
    /\ last.op = "afterSdp"
    /\ pos[last.ch] = "failed"
    /\ last.pre.dcRef = last.ch
    /\ last.pre.pcRef = last.ch
    /\ last.pre.state = "thinking"
    /\ calls = << "OpenAI is taking too long. Please try again." >>

\* C13 second witness: the microphone is denied
C13_MicWitness ==
    /\ last.op = "afterGetUserMedia"
    /\ ~last.arg.ok
    /\ last.pre.pcRef = last.ch
    /\ calls = << "Permission denied" >>

\* C13 third witness: the token response carries no value
C13_TokenWitness ==
    /\ last.op = "afterToken"
    /\ last.arg.outcome = "no value"
    /\ last.pre.dcRef = last.ch
    /\ calls = << "No token received" >>

\* C13 fourth witness: the answer cannot be applied to a connection still open
C13_AnswerWitness ==
    /\ last.op = "afterSetRemoteDescription"
    /\ ~last.arg.ok
    /\ ~last.pre.isConnected
    /\ last.pre.dcRef = last.ch
    /\ Len(calls) = 1

\* the requests of attempt i that went to url
RequestsTo(i, url) == LET To(r) == r.url = url IN SelectSeq(fetches[i], To)

\* the connect() invocation made last
Latest == NextAttempt - 1

\* the step just run issued a credential or a negotiation request
IssuedRequest ==
    \/ last.op = "afterOffer" /\ pos[last.ch] = "token"
    \/ last.op = "afterToken" /\ pos[last.ch] = "sdp"

\* each connect() invocation issues at most one credential request and at most
\* one negotiation request, and nothing else issues any
C14_RequestsPerConnect ==
    \A i \in Attempts :
        /\ Len(RequestsTo(i, TokenRequest.url)) <= 1
        /\ Len(RequestsTo(i, SdpUrl)) <= 1
        /\ Len(fetches[i]) <= 2
        /\ pos[i] \in {"none", "mic", "offer"} => fetches[i] = <<>>

\* C14: no retry is automatic: once the connect invoked last has failed or
\* its channel has closed, no credential request and no negotiation request is
\* issued until connect is invoked again; the number of credential requests
\* never exceeds the number of connect invocations.
C14_NoAutomaticRetry ==
    /\ (IssuedRequest /\ Latest \in Attempts) =>
          (pos[Latest] # "failed" /\ dcState[Latest] # "closed")
    /\ Cardinality({ i \in Attempts : RequestsTo(i, TokenRequest.url) # <<>> }) <= Latest
    /\ C14_RequestsPerConnect

\* C15: every connect attempt that reaches the credential step issues its own
\* credential request, the credential it gets goes into its one negotiation
\* request, and no two attempts negotiate with the same credential.
C15_FreshCredential ==
    /\ \A i \in Attempts :
          /\ pos[i] \in {"token", "sdp", "remote", "done"} => fetches[i] # <<>>
          /\ fetches[i] # <<>> => fetches[i][1] = TokenRequest
          /\ Len(RequestsTo(i, TokenRequest.url)) <= 1
          /\ Len(RequestsTo(i, SdpUrl)) <= 1
    /\ \A p, q \in Negotiations(World) :
          p # q => fetches[p[1]][p[2]].Authorization # fetches[q[1]][q[2]].Authorization
    /\ (last.op = "afterToken" /\ last.arg.outcome = "value") =>
          /\ Len(fetches[last.ch]) = 2
          /\ fetches[last.ch][2] = SdpRequest(last.arg.value)

\* C15 witness: two attempts have each negotiated with their own credential
C15_Witness ==
    /\ last.op = "afterToken"
    /\ last.arg.outcome = "value"
    /\ \A i \in Attempts : Len(RequestsTo(i, SdpUrl)) = 1
    /\ Cardinality(Bearers(World)) = MaxConnects

\* the POST handler has returned
Returned == route = "ready" /\ response # NoResponse

\* what the upstream answered in the call that returned last
LastReply == Reply(exchange.behaviour, outbound[exchange.n], exchange.n)

Success(r) == r.status \in 200 .. 299 /\ r.body.value # {} /\ r.body.error = {}

Failure(r) == r.status \notin 200 .. 299 /\ r.body.error # {} /\ r.body.value = {}

C16_ValueWitness ==
    /\ Returned
    /\ Len(outbound) = 2
    /\ response.status = 200
    /\ response.body.value = { <<"ek_", "2">> }

\* C16 third witness: no key, a response and no outbound request
C16_NoKeyWitness ==
    /\ apiKey = { <<>> }
    /\ Returned
    /\ outbound = <<>>

\* key occurs in str
Contains(str, key) ==
    \E p \in 1 .. Len(str) : p + Len(key) - 1 <= Len(str) /\ SubSeq(str, p, p + Len(key) - 1) = key

\* C17: the long-lived credential never goes back to the caller of the token
\* route: whatever the upstream does, the response does not contain it, and
\* the response is the same whichever credential was configured.
C17_KeyStaysInside ==
    (Returned /\ exchange # NoExchange) =>
        /\ \A key \in apiKey :
              \A str \in response.body.value \cup response.body.details :
                  ~Contains(str, key)
        /\ \A key \in Keys : POST({key}, exchange.behaviour, exchange.n) = response

\* the parser function applied last, with its input
LastApplied == applied[Len(applied)]

Converted == applied # <<>> /\ LastApplied.fn = "convertToLaTeX"

Alnum == Letter \cup Digit

Operators == { "^", "_" }

Braces == { "{", "}" }

\* shorthand: text that is not empty and has no LaTeX delimiter or brace in it
Shorthand(str) ==
    /\ Trim(str) # <<>>
    /\ \A k \in 1 .. Len(str) : str[k] \notin { "$", "\\" } \cup Braces

\* where str has a base, an operator and an exponent or subscript
Occurrences(str) ==
    { k \in 2 .. Len(str) - 1 :
        str[k] \in Operators /\ str[k - 1] \in Alnum /\ str[k + 1] \in Alnum }

Unbraced(str) == LET Kept(c) == c \notin Braces IN SelectSeq(str, Kept)

\* where the k-th character of Unbraced(str) stands in str
BodyIndex(str, k) ==
    CHOOSE p \in 1 .. Len(str) :
        /\ str[p] \notin Braces
        /\ Cardinality({ q \in 1 .. p : str[q] \notin Braces }) = k

\* C18: convertToLaTeX gives the empty string for empty and for whitespace-only
\* input; for any other shorthand input it gives the input, trimmed, between
\* one '$' at each end, with an opening brace put after the operator of every
\* occurrence of base^exp and base_sub and nothing but braces added (x^2 gives
\* $x^{2}$, x_2 gives $x_{2}$, x^2 + y^2 gives $x^{2} + y^{2}$).
C18_Convert ==
    Converted =>
        LET in == LastApplied.input
            body == SubSeq(expr, 2, Len(expr) - 1)
        IN  /\ Trim(in) = <<>> => expr = <<>>
            /\ Shorthand(in) =>
                  /\ Len(expr) >= 2
                  /\ expr[1] = "$"
                  /\ expr[Len(expr)] = "$"
                  /\ Unbraced(body) = Trim(in)
                  /\ \A k \in Occurrences(Trim(in)) :
                        /\ BodyIndex(body, k) < Len(body)
                        /\ body[BodyIndex(body, k) + 1] = "{"
            /\ in = << "x", "^", "2" >> => expr = << "$", "x", "^", "{", "2", "}", "$" >>
            /\ in = << "x", "_", "2" >> => expr = << "$", "x", "_", "{", "2", "}", "$" >>
            /\ in = << "x", "^", "2", " ", "+", " ", "y", "^", "2" >> =>
                  expr = << "$", "x", "^", "{", "2", "}", " ", "+", " ",
                            "y", "^", "{", "2", "}", "$" >>

\* the run of characters of class that starts at p, and the one that ends at p
RunAfter(str, p, class) == SubSeq(str, p, p + RunLength(str, p, class) - 1)

RECURSIVE RunLengthBack(_, _, _)
RunLengthBack(str, p, class) ==
    IF p >= 1 /\ str[p] \in class THEN 1 + RunLengthBack(str, p - 1, class) ELSE 0

RunBefore(str, p, class) == SubSeq(str, p - RunLengthBack(str, p, class) + 1, p)

\* the text the first substitution of the conversion applied last worked on,
\* and the text the second one worked on
CaretText == Processed(Trim(LastApplied.input))

UnderscoreText == Substitute(CaretText, "^")

\* every match in str has the maximal alphanumeric runs around its operator
MaximalAlnum(str, op) ==
    LET found == Matches(str, 1, op) IN
    \A j \in 1 .. Len(found) :
        LET at == found[j].at + Len(found[j].base) IN
        /\ found[j].arg = RunAfter(str, at + 1, Alnum)
        /\ found[j].base = RunBefore(str, at - 1, Alnum)

\* C19: in convertToLaTeX the base, exponent and subscript captured by the two
\* substitutions are maximal runs of alphanumeric characters: what goes inside
\* the braces is the whole maximal alphanumeric run after the caret or
\* underscore, the base the whole maximal alphanumeric run before it.
C19_MaximalAlnumRuns ==
    (Converted /\ Trim(LastApplied.input) # <<>>) =>
        /\ MaximalAlnum(CaretText, "^")
        /\ MaximalAlnum(UnderscoreText, "_")

\* what the pattern captures: the base is a run of word characters (letters,
\* digits, underscore) that ends at the operator and begins where its run
\* begins or where the match before ended, the operator is the last one of
\* that run with a word character after it, and the exponent or subscript is
\* the maximal run of digits when a digit follows the operator and the maximal
\* run of word characters otherwise
CapturedRuns(str, op) ==
    LET found == Matches(str, 1, op) IN
    \A j \in 1 .. Len(found) :
        LET m == found[j]
            at == m.at + Len(m.base)
            resume == IF j = 1 THEN 1
                      ELSE found[j - 1].at + Len(found[j - 1].base) + 1
                           + Len(found[j - 1].arg)
            runEnd == m.at + RunLength(str, m.at, Word) - 1
        IN  /\ m.base # <<>>
            /\ \A k \in 1 .. Len(m.base) : m.base[k] \in Word
            /\ m.base = SubSeq(str, m.at, at - 1)
            /\ m.at >= resume
            /\ m.at = resume \/ str[m.at - 1] \notin Word
            /\ str[at] = op
            /\ \A k \in at + 1 .. runEnd - 1 : str[k] # op
            /\ m.arg # <<>>
            /\ m.arg = IF str[at + 1] \in Digit THEN RunAfter(str, at + 1, Digit)
                       ELSE RunAfter(str, at + 1, Word)

\* C19 as amended: the captured runs are runs of word characters, and a run of
\* digits where the exponent or subscript begins with a digit; each match is
\* rewritten to base, operator, the capture in braces.
C19_CapturedRuns ==
    (Converted /\ Trim(LastApplied.input) # <<>>) =>
        /\ CapturedRuns(CaretText, "^")
        /\ CapturedRuns(UnderscoreText, "_")
        /\ Len(expr) = Len(CaretText) + 2
                       + 2 * Len(Matches(CaretText, 1, "^"))
                       + 2 * Len(Matches(UnderscoreText, 1, "_"))

\* C19 witness: an exponent of a digit and a letter; the digit alone is braced
C19_Witness ==
    /\ Converted
    /\ LastApplied.input = << "x", "^", "2", "x" >>
    /\ expr = << "$", "x", "^", "{", "2", "}", "x", "$" >>

\* C19 second witness: a base with an underscore in it
C19_UnderscoreWitness ==
    /\ Converted
    /\ LastApplied.input = << "x", "_", "_", "2" >>
    /\ expr = << "$", "x", "_", "_", "{", "2", "}", "$" >>

\* well-formed shorthand with single patterns only: letters, digits, blanks,
\* plus signs and operators, every operator between a base and an exponent or
\* subscript of its own
WellFormed(str) ==
    /\ str # <<>>
    /\ str = Trim(str)
    /\ \A k \in 1 .. Len(str) : str[k] \in Alnum \cup Operators \cup { " ", "+" }
    /\ \E k \in 1 .. Len(str) : str[k] \in Operators
    /\ \A k \in 1 .. Len(str) : str[k] \in Operators => k \in Occurrences(str)
    /\ \A k, l \in Occurrences(str) :
          k < l => \E q \in k + 1 .. l - 1 : str[q] \in { " ", "+" }

\* the braced form of well-formed shorthand, read off character by character:
\* after an operator, its exponent or subscript goes into braces
RECURSIVE BracedForm(_, _)
BracedForm(str, p) ==
    IF p > Len(str) THEN <<>>
    ELSE IF str[p] \notin Operators THEN << str[p] >> \o BracedForm(str, p + 1)
    ELSE LET class == IF str[p + 1] \in Digit THEN Digit ELSE Alnum
             arg == RunAfter(str, p + 1, class)
         IN  << str[p], "{" >> \o arg \o << "}" >> \o BracedForm(str, p + 1 + Len(arg))

\* the text was converted and the result then stripped
RoundTrip ==
    /\ Len(applied) >= 2
    /\ applied[Len(applied) - 1].fn = "convertToLaTeX"
    /\ LastApplied.fn = "stripLatexDelimiters"

\* C20: round trip: for well-formed shorthand x with single exponent and
\* subscript patterns only, stripLatexDelimiters(convertToLaTeX(x)) is the
\* braced form of x, and it is convertToLaTeX(x) without exactly the two
\* delimiters that convertToLaTeX put around it.
C20_RoundTrip ==
    (RoundTrip /\ WellFormed(applied[Len(applied) - 1].input)) =>
        /\ expr = BracedForm(applied[Len(applied) - 1].input, 1)
        /\ LastApplied.input = Dollar \o expr \o Dollar

\* C20 witness: x^2 + y^2 converted and stripped
C20_Witness ==
    /\ RoundTrip
    /\ Len(applied) = 2
    /\ applied[1].input = << "x", "^", "2", " ", "+", " ", "y", "^", "2" >>
    /\ WellFormed(applied[1].input)
    /\ expr = << "x", "^", "{", "2", "}", " ", "+", " ", "y", "^", "{", "2", "}" >>

\* C20 second witness: a subscript converted and stripped
C20_SubscriptWitness ==
    /\ RoundTrip
    /\ WellFormed(applied[Len(applied) - 1].input)
    /\ expr = << "x", "_", "{", "2", "}" >>

Stripped == applied # <<>> /\ LastApplied.fn = "stripLatexDelimiters"

\* the three recognized pairs, each as (opening, closing)
Pairs ==
    { << Dollar, Dollar >>, << OpenParen, CloseParen >>, << OpenBracket, CloseBracket >> }

\* str is an opening delimiter, some text, and the closing delimiter of the pair
Enclosed(str, pair) ==
    /\ Len(str) >= Len(pair[1]) + Len(pair[2])
    /\ StartsWith(str, pair[1])
    /\ EndsWith(str, pair[2])

Delimited(str) == \E pair \in Pairs : Enclosed(str, pair)

Blank(str) == \A k \in 1 .. Len(str) : str[k] \in WhiteSpace

\* whole is part between the two delimiters of pair, with nothing but white
\* space between a delimiter and part
OneLayerOff(whole, part, pair) ==
    \E a, b \in 0 .. Len(whole) :
        LET from == Len(pair[1]) + a
            to == from + Len(part)
        IN  /\ Len(whole) = to + b + Len(pair[2])
            /\ SubSeq(whole, 1, Len(pair[1])) = pair[1]
            /\ Blank(SubSeq(whole, Len(pair[1]) + 1, from))
            /\ SubSeq(whole, from + 1, to) = part
            /\ Blank(SubSeq(whole, to + 1, to + b))
            /\ SubSeq(whole, to + b + 1, Len(whole)) = pair[2]

\* C21: stripLatexDelimiters is a no-op on input with no recognized delimiter
\* pair: for every input that is not enclosed in one of the three pairs the
\* result equals the input unchanged; for input enclosed in a recognized pair
\* exactly one layer of delimiters is removed.
C21_NoOpUnchanged ==
    Stripped =>
        LET in == LastApplied.input IN
        /\ ~Delimited(Trim(in)) => expr = in
        /\ \A pair \in Pairs :
              Enclosed(Trim(in), pair) => OneLayerOff(Trim(in), expr, pair)

\* C21 as amended: the input is trimmed first. When the trimmed text is not
\* enclosed in one of the three pairs the result is the trimmed text (so the
\* input itself when it has no white space around it), except that a lone '$'
\* gives the empty string; when it is enclosed, exactly one layer of
\* delimiters is removed and the text between them is trimmed.
C21_StripTrimmed ==
    Stripped =>
        LET in == LastApplied.input
            trimmed == Trim(in)
        IN  /\ (~Delimited(trimmed) /\ trimmed # Dollar) => expr = trimmed
            /\ (~Delimited(in) /\ in = trimmed /\ in # Dollar) => expr = in
            /\ trimmed = Dollar => expr = <<>>
            /\ \A pair \in Pairs :
                  Enclosed(trimmed, pair) =>
                      /\ OneLayerOff(trimmed, expr, pair)
                      /\ expr = Trim(expr)
                      /\ Len(expr) <= Len(trimmed) - Len(pair[1]) - Len(pair[2])

\* C21 witness: of two layers of '$' one is removed
C21_Witness ==
    /\ Stripped
    /\ LastApplied.input = << "$", "$", "$", "$" >>
    /\ expr = << "$", "$" >>

\* C21 second witness: undelimited text with white space around it
C21_TrimWitness ==
    /\ Stripped
    /\ LastApplied.input = << " ", "x", "^", "2" >>
    /\ expr = << "x", "^", "2" >>

\* C21 third witness: a bracket pair is removed
C21_BracketWitness ==
    /\ Stripped
    /\ LastApplied.input = << "\\", "[", "x", "_", "2", "\\", "]" >>
    /\ expr = << "x", "_", "2" >>

\* C22: convert-then-strip is idempotent on canonical input: for the latex x
\* that a conversion produced, rawLatex(rawLatex(x)) = rawLatex(x) and
\* convertToLaTeX(convertToLaTeX(x)) = convertToLaTeX(x); re-opening a saved
\* math block in the editor and saving it without edits stores the same latex.
C22_Idempotent ==
    (Converted /\ expr # <<>>) =>
        /\ rawLatex(rawLatex(expr)) = rawLatex(expr)
        /\ convertToLaTeX(convertToLaTeX(expr)) = convertToLaTeX(expr)
        /\ handleSave(initialInput(expr)) = { expr }

\* the part of C22 about shorthand without a delimiter in it: saving the block
\* that was saved from it a second time changes nothing any more
C22_ShorthandSettles ==
    (Converted /\ Shorthand(LastApplied.input)) =>
        /\ rawLatex(rawLatex(expr)) = rawLatex(expr)
        /\ convertToLaTeX(convertToLaTeX(expr)) = convertToLaTeX(expr)

\* the part of C22 about well-formed shorthand: the saved block is stored
\* unchanged when it is opened and saved again
C22_WellFormedResave ==
    (Converted /\ WellFormed(LastApplied.input)) =>
        handleSave(initialInput(expr)) = { expr }

\* the page handlers that may change the pending attachment
AttachmentHandlers == { "FileUpload", "handleSendImageOnly", "handleTextSend", "Remove" }

\* the last two frames of the channel the send just made went to
LastItem == frames[last.ch][Len(frames[last.ch]) - 1]

LastPair == << LastItem, frames[last.ch][Len(frames[last.ch])] >>

\* what each handler leaves of the pending attachment, and what it sends
C23_AfterHandler ==
    /\ last.via = "FileUpload" => uploadedImage = last.arg.image
    /\ last.via \in { "handleSendImageOnly", "handleTextSend", "Remove" } =>
          uploadedImage = NoImage
    /\ last.via = "handleSendImageOnly" =>
          /\ last.op = "sendImage"
          /\ last.arg.image # NoImage
          /\ TotalFrames = last.pre.nframes + (IF last.pre.open THEN 2 ELSE 0)
          /\ last.pre.open =>
                LastPair = << ItemCreate(<< InputImage(last.arg.image.base64,
                                                       last.arg.image.mimeType) >>),
                              ResponseCreate >>
    /\ (last.via = "handleTextSend" /\ last.arg.image # NoImage) =>
          /\ last.op = "sendTextWithImage"
          /\ TotalFrames = last.pre.nframes + (IF last.pre.open THEN 2 ELSE 0)
          /\ last.pre.open =>
                LastPair = << ItemCreate(<< InputText(last.arg.text),
                                            InputImage(last.arg.image.base64,
                                                       last.arg.image.mimeType) >>),
                              ResponseCreate >>
    /\ (last.via = "handleTextSend" /\ last.arg.image = NoImage) =>
          /\ last.op = "sendText"
          /\ TotalFrames = last.pre.nframes + (IF last.pre.open THEN 2 ELSE 0)
          /\ last.pre.open =>
                LastPair = << ItemCreate(<< InputText(last.arg.text) >>), ResponseCreate >>

\* only an upload, a send or Remove changes the pending attachment
C23_Held == uploadedImage' # uploadedImage => last'.via \in AttachmentHandlers

\* C23: the pending attachment is held from the upload until the next send or
\* explicit removal and is cleared by each of them: after an image-only send,
\* after a text send made with an attachment pending (one combined
\* text-with-image message, not two messages) and after Remove it is empty; a
\* text send with no attachment pending issues a text-only message.
C23_PendingAttachment == [] C23_AfterHandler /\ [][C23_Held]_vars

\* C23 witness: an attachment that was held while the tutor answered has gone
\* out with a text, in one message, and is pending no more
C23_Witness ==
    /\ last.via = "handleTextSend"
    /\ last.arg.image = Png
    /\ last.pre.open
    /\ last.pre.state = "listening"
    /\ uploadedImage = NoImage
    /\ Len(frames[last.ch]) = 2

\* C23 second witness: Remove clears the attachment and nothing is sent
C23_RemoveWitness ==
    /\ last.via = "Remove"
    /\ uploadedImage = NoImage
    /\ TotalFrames = 0
    /\ ChannelOpen(World)

\* C23 third witness: an image-only send
C23_ImageOnlyWitness ==
    /\ last.via = "handleSendImageOnly"
    /\ last.arg.image = Jpeg
    /\ last.pre.open
    /\ uploadedImage = NoImage

\* the hook's state right after useRealtimeTutor is first rendered
InitialState == [state |-> "idle", isConnected |-> FALSE, transcript |-> <<>>]

\* C24: disconnect closes the connection and resets all of the hook's state to
\* its initial values: after disconnect the phase is idle, isConnected is
\* false and the transcript is empty.
C24_DisconnectResets ==
    last.op = "disconnect" =>
        /\ [state |-> state, isConnected |-> isConnected, transcript |-> transcript]
              = InitialState
        /\ last.pre.dcRef # 0 => dcState[last.pre.dcRef] = "closed"
        /\ last.pre.pcRef # 0 => pcClosed[last.pre.pcRef]

\* what disconnect does reset: the phase, isConnected and the two handles
C24_ResetsButTranscript ==
    last.op = "disconnect" =>
        /\ state = "idle"
        /\ ~isConnected
        /\ dcRef = 0
        /\ pcRef = 0
        /\ transcript = last.pre.transcript

\* what connect() invocation i acquired is closed, detached, or was never
\* acquired: peer connection, message channel, audio sink attachment
TransportReleased(i) ==
    /\ pcClosed[i]
    /\ dcState[i] \in { "none", "closed" }
    /\ ~audioSrc[i]

\* the same, and the microphone capture stream
Released(i) == TransportReleased(i) /\ ~micLive[i]

\* the connect() invocations whose resources the callback run just finished
\* had to release: the one a disconnect found in the handles, the one that failed
Ended ==
    { i \in Attempts :
        \/ last.op = "disconnect" /\ i \in { last.pre.pcRef, last.pre.dcRef }
        \/ last.op \in ConnectSteps /\ pos[last.ch] = "failed" /\ i = last.ch }

\* C25: every resource acquired by connect (peer connection, message channel,
\* audio sink attachment, microphone capture stream) is released on every exit
\* path: after disconnect, and after a connect that failed at any step, none
\* of them remains open or held.
C25_AllReleased == \A i \in Ended : Released(i)

\* the part of C25 that holds while connect invocations do not overlap: the
\* peer connection and the channel are closed and the audio sink is detached
C25_TransportReleased == \A i \in Ended : TransportReleased(i)

\* the awaits of connect() in program order: "mic" waits for getUserMedia,
\* "offer" for createOffer and setLocalDescription, "token" for the credential
\* request, "sdp" for the negotiation request, "remote" for setRemoteDescription
StepOrder == << "none", "mic", "offer", "token", "sdp", "remote", "done" >>

Rank(p) == CHOOSE k \in 1 .. Len(StepOrder) : StepOrder[k] = p

\* what attempt i has done so far is what the steps up to rank n do, in order
DoneUpTo(i, n) ==
    /\ n >= 3 => micLive[i]
    /\ n < 2 => ~micLive[i]
    /\ dcState[i] # "none" <=> n >= 3
    /\ Len(fetches[i]) = (IF n >= 5 THEN 2 ELSE IF n = 4 THEN 1 ELSE 0)
    /\ n >= 4 => fetches[i][1] = TokenRequest
    /\ n >= 5 => (fetches[i][2].url = SdpUrl /\ fetches[i][2].url # TokenRequest.url)

\* in every state each attempt has done a prefix of the steps, and a failed
\* one a prefix too; a denied microphone leaves no channel and no request
C26_Prefix ==
    /\ last.op = "connect" =>
          (state = "thinking" /\ pos[last.ch] = "mic" /\ last.pre.dcRef # last.ch)
    /\ \A i \in Attempts :
          /\ pos[i] # "failed" => DoneUpTo(i, Rank(pos[i]))
          /\ pos[i] = "mic" => ~micLive[i]
          /\ pos[i] = "failed" => \E n \in 2 .. 6 : DoneUpTo(i, n)
    /\ (last.op = "afterGetUserMedia" /\ ~last.arg.ok) =>
          /\ pos[last.ch] = "failed"
          /\ fetches[last.ch] = <<>>
          /\ dcState[last.ch] = "none"

\* each step of an attempt is the next one in the order or its failure, and
\* an attempt that has failed or finished does nothing more
C26_NextStep ==
    \A i \in Attempts :
        /\ pos'[i] # pos[i] =>
              \/ pos[i] \notin { "none", "failed", "done" } /\ pos'[i] = "failed"
              \/ /\ pos[i] \notin { "failed", "done" }
                 /\ pos'[i] # "failed"
                 /\ Rank(pos'[i]) = Rank(pos[i]) + 1
        /\ pos'[i] = pos[i] =>
              (fetches'[i] = fetches[i] /\ micLive'[i] = micLive[i])
        /\ (pos[i] # "failed" /\ pos'[i] = "failed") => fetches'[i] = fetches[i]
        /\ (dcState[i] = "none" /\ dcState'[i] # "none") => pos[i] = "mic"

\* C26: connect sets the phase to thinking before its first asynchronous step
\* and then performs its steps strictly in this order: microphone, message
\* channel, local offer, exactly one credential request, exactly one
\* negotiation request, the answer. A failure at one step means that no later
\* step is executed; when the microphone is denied no credential request and
\* no negotiation request is made.
C26_StepOrder == [] C26_Prefix /\ [][C26_NextStep]_vars

\* C26 witness: an attempt went through every step, with one request of each kind
C26_Witness ==
    /\ last.op = "afterSetRemoteDescription"
    /\ pos[last.ch] = "done"
    /\ Len(fetches[last.ch]) = 2
    /\ fetches[last.ch][1] = TokenRequest
    /\ fetches[last.ch][2].url = SdpUrl

\* C26 second witness: the microphone was denied and nothing was requested
C26_DeniedWitness ==
    /\ last.op = "afterGetUserMedia"
    /\ ~last.arg.ok
    /\ fetches[last.ch] = <<>>
    /\ \A i \in Attempts : fetches[i] = <<>>

\* C26 third witness: the credential request failed and no negotiation request followed
C26_TokenFailedWitness ==
    /\ last.op = "afterToken"
    /\ pos[last.ch] = "failed"
    /\ fetches[last.ch] = << TokenRequest >>

\* the two ways a connect request may end
ConnectedOutcome == state = "listening" /\ isConnected

FailedOutcome == state = "idle" /\ calls # <<>>

\* C27: under fairness (every pending asynchronous step of connect eventually
\* resolves or rejects, and the open event of the channel eventually fires
\* after the answer has been applied), every connect request eventually leads
\* either to phase listening with isConnected true or to phase idle with the
\* error callback invoked; the manager does not stay connecting forever.
C27_ConnectSettles == (last.op = "connect") ~> (ConnectedOutcome \/ FailedOutcome)

\* C27 witness: a connect request has ended with the channel open
C27_Witness ==
    /\ last.op = "open"
    /\ last.pre.state = "thinking"
    /\ ~last.pre.isConnected
    /\ ConnectedOutcome

\* C27 second witness: a connect request has ended in its catch block
C27_FailedWitness ==
    /\ last.op = "afterSdp"
    /\ last.pre.state = "thinking"
    /\ FailedOutcome

\* the suspension points of connect()
InFlight == { "mic", "offer", "token", "sdp", "remote" }

\* a disconnect() call has just run while connect() invocation i was suspended
TornDown(i) == last.op = "disconnect" /\ pos[i] \in InFlight

\* invocation i has no live session: the handles do not hold its connection or
\* its channel, its channel is not open, and the step that ended it left the
\* phase idle
NoLiveSession(i) ==
    /\ dcRef # i
    /\ pcRef # i
    /\ dcState[i] # "open"
    /\ ~(last.op = "open" /\ last.ch = i)
    /\ (last.op \in ConnectSteps /\ last.ch = i /\ pos[i] \notin InFlight) => state = "idle"

\* C28: if disconnect is invoked while a connect is in flight, at any of its
\* suspension points, that connect never produces a live session: after the
\* teardown its continuation does not put its connection or channel back into
\* the handles, isConnected never becomes true for it, and once the
\* continuation ends the phase is idle.
C28_TornDownStaysDown == \A i \in Attempts : [](TornDown(i) => [] NoLiveSession(i))

PageSends == { "handleSendImageOnly", "handleTextSend" }

\* C29: in every reachable state, isConnected true implies that the current
\* channel handle is present and refers to an open channel, so that a send
\* made from the controls the page shows while connected is never silently
\* dropped.
C29_ConnectedMeansOpen ==
    /\ isConnected => ChannelOpen(World)
    /\ last.via \in PageSends =>
          (last.pre.open /\ TotalFrames = last.pre.nframes + 2)

\* frame is a conversation.item.create whose content has the image img
Carries(frame, img) ==
    /\ frame.type = "conversation.item.create"
    /\ \E k \in DOMAIN frame.item.content :
          frame.item.content[k] = InputImage(img.base64, img.mimeType)

\* the page handler just run cleared a pending attachment without Remove
ClearedBySend ==
    /\ last.via \in PageSends
    /\ last.arg.image # NoImage
    /\ uploadedImage = NoImage

\* C30: a pending attachment is never lost: whenever the tutor page clears the
\* pending attachment other than by explicit removal, a
\* conversation.item.create frame carrying that image has been enqueued on the
\* message channel.
C30_AttachmentNeverLost ==
    ClearedBySend =>
        /\ last.ch \in Attempts
        /\ TotalFrames > last.pre.nframes
        /\ Len(frames[last.ch]) >= 2
        /\ Carries(LastItem, last.arg.image)

====
